---- MODULE Spec2Model ----
(***************************************************************************)
(* The dancefloor service (src/main.go): four HTTP handlers, /add, /del,   *)
(* /move and /fetch, each issuing one command against the Redis hash       *)
(* "gophers" through a pooled connection.                                  *)
(*                                                                         *)
(* src/main.go holds two revisions of the program, one after the other:    *)
(* lines 1-166 (revision 1: the handler leases the connection and writes   *)
(* "ok" whatever the command returned) and lines 168-340 (revision 2:      *)
(* performRedisOperation leases the connection and "ok" is written only    *)
(* when err == nil).  The variable revision says which one is running.     *)
(*                                                                         *)
(* A request takes two steps: the handler up to p.Get() (or its 400), and  *)
(* c.Do with the rest of the handler; c.Do is the only access to the       *)
(* store, so the steps of the requests in flight interleave there.         *)
(*                                                                         *)
(* Text is modelled as a sequence of one-character strings, so that        *)
(* fmt.Sprintf, strings.Split and strconv.ParseFloat act on characters.    *)
(* A float64 is [kind, v]: kind "num" with v in hundredths, or kind "nan". *)
(***************************************************************************)
EXTENDS Integers, Sequences, FiniteSets, TLC

\* ---------------------------------------------------------------- bounds
\* Number of requests that can be in flight at once (one goroutine each).
NumClients == 2
\* Number of requests served in one behaviour.
MaxOps == 2

\* ------------------------------------------------------ program constants
\* flag max-connections: redis.NewPool(newFn, maxIdle) sets MaxIdle.
maxConnections == 10
StatusOK == 200
StatusBadRequest == 400
StatusInternalServerError == 500

\* ---------------------------------------------------------------- inputs
Clients == 1..NumClients
\* The two revisions of the handlers in src/main.go.
Revisions == {1, 2}
Empty == <<>>
One == <<"1">>
TwoAndHalf == <<"2", ".", "5">>
MinusThree == <<"-", "3">>
Junk == <<"q">>
NotANumber == <<"N", "a", "N">>
\* Values of the query parameter id that name a record.
Ids == {"a", "b"}
\* Values of the query parameters x and y: two positions of plain decimals,
\* (1, 2.5) and (-3, 1), one with an x that is no number, one whose y parses
\* to NaN.
Coords == { <<One, TwoAndHalf>>, <<MinusThree, One>>, <<Junk, One>>,
            <<One, NotANumber>> }
\* The parameters <<id, x, y>> of the /add and /move requests: every record
\* with every position, and the requests that miss id, x or y ("" is what
\* r.URL.Query().Get gives for a parameter that is missing or empty).
Inputs ==
    { <<i, c[1], c[2]>> : i \in Ids, c \in Coords }
        \cup { <<"", One, TwoAndHalf>>, <<"a", Empty, One>>, <<"a", One, Empty>> }
\* The parameter id of the /del requests.
DelInputs == Ids \cup {""}

VARIABLES revision, limit, store, idle, pc, req, lease, last, lastWrite, ops

vars == <<revision, limit, store, idle, pc, req, lease, last, lastWrite, ops>>

\* ------------------------------------------------------------ text helpers
Comma == ","
Space == " "

\* Mutant of SprintfAdd: the separator of the /move handler.
SprintfAdd_Spaced(x, y) == x \o <<Comma, Space>> \o y

\* fmt.Sprintf("%s,%s", x, y)
SprintfAdd(x, y) == x \o <<Comma>> \o y

\* fmt.Sprintf("%s, %s", x, y)
SprintfMove(x, y) == x \o <<Comma, Space>> \o y

RECURSIVE SplitFrom(_, _, _, _)
\* strings.Split scanning s from index i; cur is the piece being read.
SplitFrom(s, sep, i, cur) ==
    IF i > Len(s) THEN <<cur>>
    ELSE IF s[i] = sep THEN <<cur>> \o SplitFrom(s, sep, i + 1, <<>>)
    ELSE SplitFrom(s, sep, i + 1, Append(cur, s[i]))

\* strings.Split(s, sep) for a one-character sep.
Split(s, sep) == SplitFrom(s, sep, 1, <<>>)

IsDigit(c) == c \in {"0", "1", "2", "3", "4", "5", "6", "7", "8", "9"}

DigitVal(c) ==
    CASE c = "0" -> 0 [] c = "1" -> 1 [] c = "2" -> 2 [] c = "3" -> 3
      [] c = "4" -> 4 [] c = "5" -> 5 [] c = "6" -> 6 [] c = "7" -> 7
      [] c = "8" -> 8 [] c = "9" -> 9

RECURSIVE Pow10(_)
Pow10(n) == IF n <= 0 THEN 1 ELSE 10 * Pow10(n - 1)

\* A finite float64 is kept as a whole number of hundredths.
Unit == 10 * 10

NaN == [kind |-> "nan", v |-> 0]
Num(v) == [kind |-> "num", v |-> v]

RECURSIVE ReadFloat(_, _, _, _, _, _)
\* The digit scanner of strconv.ParseFloat: mantissa digits with at most one
\* decimal point; any other character is a syntax error.  (Exponents, hex
\* floats and "Inf" are left out: no parameter in Inputs uses them.)
ReadFloat(s, i, mant, nfrac, sawdot, sawdigits) ==
    IF i > Len(s)
    THEN [ok |-> sawdigits, mant |-> mant, nfrac |-> nfrac]
    ELSE IF IsDigit(s[i])
    THEN ReadFloat(s, i + 1, 10 * mant + DigitVal(s[i]),
                   IF sawdot THEN nfrac + 1 ELSE nfrac, sawdot, TRUE)
    ELSE IF s[i] = "." /\ ~sawdot
    THEN ReadFloat(s, i + 1, mant, nfrac, TRUE, sawdigits)
    ELSE [ok |-> FALSE, mant |-> 0, nfrac |-> 0]

LowerChar(c) == CASE c = "N" -> "n" [] c = "A" -> "a" [] OTHER -> c

\* strconv.ParseFloat(s, 64): [f |-> the float64, err |-> whether err != nil].
\* On a syntax error the float returned is 0.
ParseFloat(s) ==
    LET neg  == Len(s) > 0 /\ s[1] = "-"
        sgn  == Len(s) > 0 /\ s[1] \in {"-", "+"}
        body == IF sgn THEN SubSeq(s, 2, Len(s)) ELSE s
        low  == [i \in 1..Len(body) |-> LowerChar(body[i])]
        r    == ReadFloat(body, 1, 0, 0, FALSE, FALSE)
        mag  == (r.mant * Unit) \div Pow10(r.nfrac)
    IN  IF low = <<"n", "a", "n">> THEN [f |-> NaN, err |-> FALSE]
        ELSE IF r.ok THEN [f |-> Num(IF neg THEN 0 - mag ELSE mag), err |-> FALSE]
        ELSE [f |-> Num(0), err |-> TRUE]

\* type Position struct { X float64; Y float64 }
Position(x, y) == [X |-> x, Y |-> y]

\* ------------------------------------------------------------- map helpers
EmptyMap == [i \in {} |-> <<>>]
Put(f, k, v) == [i \in (DOMAIN f) \cup {k} |-> IF i = k THEN v ELSE f[i]]
Remove(f, k) == [i \in (DOMAIN f) \ {k} |-> f[i]]


\* ------------------------------------------------------------ http writer
\* A response nothing has been written to yet.
NoResp == [status |-> 0, text |-> <<>>, json |-> FALSE, obj |-> EmptyMap,
           panicked |-> FALSE]

\* http.Error(w, msg, code): the status line is sent once; the text is appended.
HttpError(w, msg, code) ==
    [w EXCEPT !.status = IF w.status = 0 THEN code ELSE w.status,
              !.text = Append(w.text, msg)]

\* fmt.Fprintf(w, "ok"): a first write sends status 200.
Fprintf(w, s) ==
    [w EXCEPT !.status = IF w.status = 0 THEN StatusOK ELSE w.status,
              !.text = Append(w.text, s)]

\* fmt.Fprintf(w, "%s", string(json)): the marshalled object is the body.
FprintfJSON(w, m) ==
    [w EXCEPT !.status = IF w.status = 0 THEN StatusOK ELSE w.status,
              !.json = TRUE, !.obj = m]

handleParamsError(w) == HttpError(w, "missing required params", StatusBadRequest)

handleRedisError(w) == HttpError(w, "redis error", StatusInternalServerError)

\* Mutant of MissingParams: y is not tested.
MissingParams_NoY(id, x, y) == id = "" \/ x = <<>>

\* The handlers' test  id == "" || x == "" || y == "".
MissingParams(id, x, y) == id = "" \/ x = <<>> \/ y = <<>>

\* The /del handler's test  id == "".
MissingId(id) == id = ""

\* ------------------------------------------------------------ redis store
NoReply == [err |-> FALSE, n |-> 0, values |-> <<>>]
ErrReply == [err |-> TRUE, n |-> 0, values |-> <<>>]
IntReply(n) == [err |-> FALSE, n |-> n, values |-> <<>>]
ValuesReply(vs) == [err |-> FALSE, n |-> 0, values |-> vs]

\* Mutant of HSETNX: writes whether or not field is present.
HSETNX_Overwrite(h, field, value) ==
    [hash |-> Put(h, field, value),
     reply |-> IntReply(IF field \in DOMAIN h THEN 0 ELSE 1)]

\* HSETNX key field value: writes only when field is absent.
HSETNX(h, field, value) ==
    IF field \in DOMAIN h
    THEN [hash |-> h, reply |-> IntReply(0)]
    ELSE [hash |-> Put(h, field, value), reply |-> IntReply(1)]

\* HSET key field value: writes unconditionally.
HSET(h, field, value) ==
    [hash |-> Put(h, field, value),
     reply |-> IntReply(IF field \in DOMAIN h THEN 0 ELSE 1)]

\* Mutant of HDEL: reports the removal and keeps the field.
HDEL_Keep(h, field) ==
    [hash |-> h, reply |-> IntReply(IF field \in DOMAIN h THEN 1 ELSE 0)]

\* HDEL key field.
HDEL(h, field) ==
    [hash |-> Remove(h, field),
     reply |-> IntReply(IF field \in DOMAIN h THEN 1 ELSE 0)]

\* The orders in which HGETALL may list the fields of h.
FieldOrders(h) ==
    { o \in [1..Cardinality(DOMAIN h) -> DOMAIN h] :
        \A i, j \in DOMAIN o : i # j => o[i] # o[j] }

\* HGETALL key: the flat list field1, value1, field2, value2, ... in the order o.
HGETALL(h, o) ==
    [i \in 1..(2 * Len(o)) |->
        IF i % 2 = 1 THEN o[(i + 1) \div 2] ELSE h[o[i \div 2]]]

\* --------------------------------------------------------- connection pool
NoConn == 0

\* The connections that exist: leased to a request or idle in the pool.
Live == {lease[r] : r \in Clients} \cup idle

\* redis.Dial: a new connection, distinct from every live one.
Dial == CHOOSE c \in 1..(NumClients + maxConnections + 1) : c \notin Live

\* Pool.Get: an idle connection, else a dialled one (MaxActive is 0, so Get
\* never waits).  A failed dial gives a connection whose Do fails: it is the
\* "fail" outcome of c.Do on a fresh connection.
PoolGet ==
    IF idle # {}
    THEN LET c == CHOOSE c \in idle : \A d \in idle : c <= d
         IN  [conn |-> c, idle |-> idle \ {c}]
    ELSE [conn |-> Dial, idle |-> idle]

\* defer c.Close(): a healthy connection goes back to the idle connections
\* unless MaxIdle of them are kept already; a failed one is dropped.
PoolPut(c, failed) ==
    IF c = NoConn \/ failed THEN idle
    ELSE IF Cardinality(idle) >= maxConnections THEN idle
    ELSE idle \cup {c}

\* ------------------------------------------------------- /fetch decoding
RECURSIVE DecodeLoop(_, _, _)
\* for i := 0; i < len(values); i += 2 { ... returns[id] = position }
\* (i is 1-based here).  positions[1] on a value without a comma panics.
DecodeLoop(values, i, returns) ==
    IF i > Len(values) THEN [panicked |-> FALSE, returns |-> returns]
    ELSE LET id        == values[i]
             value     == values[i + 1]
             positions == Split(value, Comma)
         IN  IF Len(positions) < 2
             THEN [panicked |-> TRUE, returns |-> returns]
             ELSE LET x == ParseFloat(positions[1]).f
                      y == ParseFloat(positions[2]).f
                  IN  DecodeLoop(values, i + 2, Put(returns, id, Position(x, y)))

\* json.Marshal(returns): an UnsupportedValueError for a NaN coordinate.
MarshalFails(returns) ==
    \E i \in DOMAIN returns : returns[i].X.kind = "nan" \/ returns[i].Y.kind = "nan"

\* The /fetch handler after a successful HGETALL: decode, marshal, write.
FetchRender(w, values) ==
    LET d == DecodeLoop(values, 1, EmptyMap)
    IN  IF d.panicked THEN [w EXCEPT !.panicked = TRUE]
        ELSE IF MarshalFails(d.returns)
        THEN HttpError(w, "json marshal error", StatusInternalServerError)
        ELSE FprintfJSON(w, d.returns)

\* ------------------------------------------------------------------ state
NoReq == [route |-> "none", id |-> "", x |-> <<>>, y |-> <<>>]

\* last is the exchange that the latest step completed: the request, what
\* c.Do returned and the response sent (history, not program state);
\* NoExchange when the latest step completed none.
NoExchange == [req |-> NoReq, reply |-> NoReply, resp |-> NoResp]

\* The state after main() set up the pool and the handlers, for a run of the
\* either revision and a run of n requests.
Start(n) ==
    /\ revision \in Revisions
    /\ limit = n
    /\ store = EmptyMap
    /\ idle = {}
    /\ pc = [r \in Clients |-> "idle"]
    /\ req = [r \in Clients |-> NoReq]
    /\ lease = [r \in Clients |-> NoConn]
    /\ last = NoExchange
    /\ lastWrite = EmptyMap
    /\ ops = 0

Init == Start(MaxOps)

\* Runs one request longer, for the properties of three requests in a row.
InitLong == Start(MaxOps + 1)

\* The goroutine that serves the next request: the lowest one not in flight.
Free(r) ==
    /\ ops < limit
    /\ pc[r] = "idle"
    /\ \A r2 \in Clients : r2 < r => pc[r2] # "idle"

\* The handler rejects the request: handleParamsError(w); return.
Reject(r, q) ==
    /\ last' = [req |-> q, reply |-> NoReply, resp |-> handleParamsError(NoResp)]
    /\ ops' = ops + 1
    /\ UNCHANGED <<revision, limit, store, idle, pc, req, lease, lastWrite>>

\* The handler goes on to the store: c := redisPool.Get() (revision 1, in the
\* handler) or c := p.Get() (revision 2, in performRedisOperation).
Acquire(r, q) ==
    /\ lease' = [lease EXCEPT ![r] = PoolGet.conn]
    /\ idle' = PoolGet.idle
    /\ pc' = [pc EXCEPT ![r] = "do"]
    /\ req' = [req EXCEPT ![r] = q]
    /\ ops' = ops + 1
    /\ last' = NoExchange
    /\ UNCHANGED <<revision, limit, store, lastWrite>>

\* /add up to the store command.
AddHandler(r, id, x, y) ==
    /\ Free(r)
    /\ LET q == [route |-> "add", id |-> id, x |-> x, y |-> y]
       IN  IF MissingParams(id, x, y) THEN Reject(r, q) ELSE Acquire(r, q)

\* /del up to the store command.
DelHandler(r, id) ==
    /\ Free(r)
    /\ LET q == [route |-> "del", id |-> id, x |-> <<>>, y |-> <<>>]
       IN  IF MissingId(id) THEN Reject(r, q) ELSE Acquire(r, q)

\* /move up to the store command.
MoveHandler(r, id, x, y) ==
    /\ Free(r)
    /\ LET q == [route |-> "move", id |-> id, x |-> x, y |-> y]
       IN  IF MissingParams(id, x, y) THEN Reject(r, q) ELSE Acquire(r, q)

\* /fetch up to the store command: it takes no parameter.
FetchHandler(r) ==
    /\ Free(r)
    /\ Acquire(r, [route |-> "fetch", id |-> "", x |-> <<>>, y |-> <<>>])

\* The command a request sends.
Command(q) ==
    CASE q.route = "add"   -> "HSETNX"
      [] q.route = "del"   -> "HDEL"
      [] q.route = "move"  -> "HSET"
      [] q.route = "fetch" -> "HGETALL"

\* The value argument of the command: the position as text.
Encoded(q) ==
    IF q.route = "add" THEN SprintfAdd(q.x, q.y) ELSE SprintfMove(q.x, q.y)

\* Mutant of Execute: /add sends HSET.
Execute_AddSets(h, q) ==
    CASE q.route \in {"add", "move"} -> {HSET(h, q.id, Encoded(q))}
      [] q.route = "del"   -> {HDEL(h, q.id)}
      [] q.route = "fetch" ->
            {[hash |-> h, reply |-> ValuesReply(HGETALL(h, o))] : o \in FieldOrders(h)}

\* The results the store can give for the command of q on the hash h.
Execute(h, q) ==
    CASE q.route = "add"   -> {HSETNX(h, q.id, Encoded(q))}
      [] q.route = "move"  -> {HSET(h, q.id, Encoded(q))}
      [] q.route = "del"   -> {HDEL(h, q.id)}
      [] q.route = "fetch" ->
            {[hash |-> h, reply |-> ValuesReply(HGETALL(h, o))] : o \in FieldOrders(h)}

\* The record of the last command that wrote field id (history, not program state).
Written(lw, h, q) ==
    IF q.route = "fetch" THEN lw
    ELSE IF q.route = "del" THEN Remove(lw, q.id)
    ELSE IF q.route = "add" /\ q.id \in DOMAIN h THEN lw
    ELSE Put(lw, q.id, [op |-> Command(q), x |-> q.x, y |-> q.y,
                        prev |-> IF q.id \in DOMAIN lw THEN lw[q.id].op ELSE "none"])

\* What the handler writes once c.Do returned rep.  performRedisOperation
\* calls handleRedisError on an error; then revision 1 writes "ok" whatever
\* happened, revision 2 only when err == nil; /fetch returns on an error.
Render(rev, q, rep) ==
    LET w == IF rep.err THEN handleRedisError(NoResp) ELSE NoResp
    IN  IF q.route = "fetch"
        THEN IF rep.err THEN w ELSE FetchRender(w, rep.values)
        ELSE IF rev = 1 \/ ~rep.err THEN Fprintf(w, "ok") ELSE w

\* Mutant of Closes: the connection is closed on the success path only.
Closes_OnSuccess(q, rep, w) == ~rep.err

\* Whether the deferred c.Close() runs on the exit path taken: on every one.
Closes(q, rep, w) == TRUE

\* The ways c.Do can end: err == nil ("ok"), or err != nil with the command
\* not run ("fail": the dial, the send or the store refused it).
Outcomes == {"ok", "fail"}

\* reply, err = c.Do(op, args...) and the rest of the handler: the error or
\* the response is written, the deferred c.Close() runs, the handler returns.
performRedisOperation(r) ==
    /\ pc[r] = "do"
    /\ \E outcome \in Outcomes :
       \E res \in IF outcome = "fail" THEN {[hash |-> store, reply |-> ErrReply]}
                  ELSE Execute(store, req[r]) :
       LET w == Render(revision, req[r], res.reply)
       IN  /\ store' = res.hash
           /\ lastWrite' = IF outcome = "fail" THEN lastWrite
                           ELSE Written(lastWrite, store, req[r])
           /\ last' = [req |-> req[r], reply |-> res.reply, resp |-> w]
           /\ IF Closes(req[r], res.reply, w)
              THEN /\ idle' = PoolPut(lease[r], res.reply.err)
                   /\ lease' = [lease EXCEPT ![r] = NoConn]
              ELSE UNCHANGED <<idle, lease>>
    /\ pc' = [pc EXCEPT ![r] = "idle"]
    /\ req' = [req EXCEPT ![r] = NoReq]
    /\ UNCHANGED <<revision, limit, ops>>

Next ==
    \/ \E r \in Clients, i \in Inputs : AddHandler(r, i[1], i[2], i[3])
    \/ \E r \in Clients, id \in DelInputs : DelHandler(r, id)
    \/ \E r \in Clients, i \in Inputs : MoveHandler(r, i[1], i[2], i[3])
    \/ \E r \in Clients : FetchHandler(r)
    \/ \E r \in Clients : performRedisOperation(r)

Spec == Init /\ [][Next]_vars

SpecLong == InitLong /\ [][Next]_vars

TypeOK ==
    /\ DOMAIN store \subseteq Ids
    /\ DOMAIN lastWrite = DOMAIN store
    /\ ops \in 0..limit
    /\ \A r \in Clients : pc[r] \in {"idle", "do"}

\* ------------------------------------------------------------ properties
\* The number a plain decimal parameter denotes, as a float64.
IsNumeric(s) == s \in {One, TwoAndHalf, MinusThree}
NumberOf(s) ==
    CASE s = One        -> Num(Unit)
      [] s = TwoAndHalf -> Num(2 * Unit + Unit \div 2)
      [] s = MinusThree -> Num(0 - 3 * Unit)

\* The step completes request r: c.Do ran and the handler returned.
Completes(r) == pc[r] = "do" /\ pc'[r] = "idle"

\* The latest step completed a /fetch whose HGETALL succeeded.
Fetched == last.req.route = "fetch" /\ ~last.reply.err

\* The latest step completed a /fetch that answered with a JSON object.
FetchedObject == Fetched /\ last.resp.status = StatusOK /\ last.resp.json

C2_MoveMoveFetch ==
    FetchedObject =>
        \A i \in DOMAIN lastWrite :
            LET w == lastWrite[i]
            IN  (w.op = "HSET" /\ w.prev = "HSET" /\ IsNumeric(w.x) /\ IsNumeric(w.y)) =>
                    /\ i \in DOMAIN last.resp.obj
                    /\ last.resp.obj[i] = Position(NumberOf(w.x), NumberOf(w.y))

\* C3: a record that is present changes only by a /move of its id and
\* disappears only by a /del of its id; so no /add changes a present record.
C3_CreateIfAbsent ==
    [][\A i \in DOMAIN store :
          /\ (i \in DOMAIN store' /\ store'[i] # store[i]) =>
                \E r \in Clients :
                    Completes(r) /\ req[r].id = i /\ req[r].route = "move"
          /\ (i \notin DOMAIN store') =>
                \E r \in Clients :
                    Completes(r) /\ req[r].id = i /\ req[r].route = "del"]_vars

\* C3 witness: an /add with other coordinates completed on a present id, and
\* the record still holds the position it had.
C3_Witness ==
    /\ last.req.route = "add"
    /\ last.resp.text = <<"ok">>
    /\ last.reply.n = 0
    /\ last.req.id \in DOMAIN store
    /\ lastWrite[last.req.id].x # last.req.x
    /\ store[last.req.id] =
          lastWrite[last.req.id].x \o <<Comma>> \o lastWrite[last.req.id].y

\* C4: no response carries both the 500 error and the body "ok".
C4_ErrorOrOk ==
    last.resp.status = StatusInternalServerError =>
        \A k \in DOMAIN last.resp.text : last.resp.text[k] # "ok"

\* A request that misses a required parameter.
Missing(q) ==
    \/ q.route \in {"add", "del", "move"} /\ q.id = ""
    \/ q.route \in {"add", "move"} /\ (q.x = <<>> \/ q.y = <<>>)

\* C5: no request that misses a parameter is taken to the store, and the step
\* that answers one answers 400 with "missing required params" alone, takes
\* no connection and leaves the collection as it was.
C5_MissingParams ==
    [][/\ \A r \in Clients : (pc[r] = "idle" /\ pc'[r] = "do") => ~Missing(req'[r])
       /\ (ops' = ops + 1 /\ pc' = pc) =>
            /\ Missing(last'.req)
            /\ last'.resp.status = StatusBadRequest
            /\ last'.resp.text = <<"missing required params">>
            /\ store' = store /\ lease' = lease /\ idle' = idle]_vars

\* C5 witness: /add without y was answered 400 while the collection holds a record.
C5_Witness ==
    /\ last.req.route = "add" /\ last.req.y = <<>> /\ last.req.x # <<>>
    /\ last.resp.status = StatusBadRequest
    /\ DOMAIN store # {}

\* C6: a /del whose command succeeds answers "ok" and leaves id absent,
\* whether id was present or not, and changes no other record; an absent id
\* becomes present only by an /add or a /move of it; and a /fetch lists
\* exactly the ids that are present.
C6_Delete ==
    [][/\ \A r \in Clients :
            (Completes(r) /\ req[r].route = "del" /\ ~last'.reply.err) =>
                /\ last'.resp.status = StatusOK
                /\ last'.resp.text = <<"ok">>
                /\ req[r].id \notin DOMAIN store'
                /\ \A j \in DOMAIN store \ {req[r].id} :
                        j \in DOMAIN store' /\ store'[j] = store[j]
                /\ DOMAIN store' \subseteq DOMAIN store
       /\ \A i \in DOMAIN store' \ DOMAIN store :
            \E r \in Clients :
                Completes(r) /\ req[r].id = i /\ req[r].route \in {"add", "move"}
       /\ \A r \in Clients :
            (Completes(r) /\ req[r].route = "fetch" /\ last'.resp.json) =>
                DOMAIN last'.resp.obj = DOMAIN store]_vars

\* C6 witness: /del of a present id removed it and answered "ok".
C6_Witness ==
    /\ last.req.route = "del"
    /\ last.reply.n = 1
    /\ last.resp.text = <<"ok">>
    /\ last.req.id \notin DOMAIN store

\* A stored value that does not split into exactly two parseable numbers.
Malformed(value) ==
    LET positions == Split(value, Comma)
    IN  \/ Len(positions) # 2
        \/ ParseFloat(positions[1]).err
        \/ ParseFloat(positions[2]).err

\* C7: a /fetch whose HGETALL succeeded completes with an object that leaves
\* out every record whose value is malformed.
C7_SkipMalformed ==
    Fetched =>
        /\ ~last.resp.panicked
        /\ \A i \in DOMAIN store : Malformed(store[i]) => i \notin DOMAIN last.resp.obj

\* C8: /add and /move of the same (x, y) on two absent ids store the same value.
C8_SameEncoding ==
    \A i, j \in DOMAIN lastWrite :
        ( /\ lastWrite[i].op = "HSETNX"
          /\ lastWrite[j].op = "HSET" /\ lastWrite[j].prev = "none"
          /\ lastWrite[i].x = lastWrite[j].x /\ lastWrite[i].y = lastWrite[j].y )
        => store[i] = store[j]

\* C9: a request that is not in flight holds no lease, a request in flight
\* holds one, no connection is leased twice, and none is leased and idle.
C9_LeaseReleased ==
    /\ \A r \in Clients : pc[r] = "idle" => lease[r] = NoConn
    /\ \A r \in Clients : pc[r] = "do" => lease[r] # NoConn
    /\ \A r1, r2 \in Clients :
            (r1 # r2 /\ lease[r1] # NoConn) => lease[r1] # lease[r2]
    /\ \A r \in Clients : lease[r] \notin idle

\* C9 witness: a request just ended on the error path, another is in flight
\* with its lease, and the one that ended holds none.
C9_Witness ==
    /\ last.reply.err
    /\ last.resp.status = StatusInternalServerError
    /\ \E r1, r2 \in Clients : pc[r1] = "idle" /\ lease[r1] = NoConn
                               /\ pc[r2] = "do" /\ lease[r2] # NoConn

\* C10: an /add whose command succeeds writes its whole encoded position when
\* id is absent and changes nothing when id is present, so of the /add
\* requests racing for an absent id the first to run its HSETNX is the one
\* whose position is stored.
C10_FirstAddWins ==
    [][\A r \in Clients :
          (Completes(r) /\ req[r].route = "add" /\ ~last'.reply.err) =>
              IF req[r].id \in DOMAIN store
              THEN store' = store /\ last'.reply.n = 0
              ELSE /\ last'.reply.n = 1
                   /\ DOMAIN store' = DOMAIN store \cup {req[r].id}
                   /\ store'[req[r].id] = req[r].x \o <<Comma>> \o req[r].y
                   /\ \A j \in DOMAIN store : store'[j] = store[j]]_vars

\* C10 witness: of two /add requests in flight together for the absent id a,
\* one has just written its position and the other, with another position,
\* has yet to run.
C10_Witness ==
    /\ last.req.route = "add" /\ last.req.id = "a" /\ last.reply.n = 1
    /\ store["a"] = last.req.x \o <<Comma>> \o last.req.y
    /\ \E r \in Clients :
          /\ pc[r] = "do" /\ req[r].route = "add" /\ req[r].id = "a"
          /\ req[r].x # last.req.x
====
